---- MODULE Spec2Model ----
(***************************************************************************)
(* Distance-vector routing daemon (src/routing.py).                        *)
(*                                                                         *)
(* One node keeps three process-wide dictionaries: routing_table,          *)
(* forwarding_table and local_interfaces.  The sniff callback (main        *)
(* thread) classifies every received IP frame as a route advertisement     *)
(* (update_routing_table) or a data packet (forward_packet); a daemon      *)
(* thread runs advertise_routes.                                           *)
(*                                                                         *)
(* Python dictionaries are modelled as functions (key -> value) together   *)
(* with the insertion order of their keys where the code iterates them.    *)
(***************************************************************************)
EXTENDS Integers, Sequences, FiniteSets, TLC

(***************************************************************************)
(* Bounds of the model.                                                    *)
(***************************************************************************)
\* largest distance carried by a received advertisement (IntField value)
MaxAdv == 17
\* advertisements carry a distance of at most MaxNear, or one next to INFINITY
MaxNear == 2
\* number of nodes of the network of SpecNet
NumNodes == 3
\* advertisement rounds SpecNet runs beyond the diameter of the topology
ExtraRounds == 2
\* largest distance of an advertisement received while the two threads of
\* SpecThreads interleave
MaxThread == 0
\* number of advertisements of a batch of SpecOrder
MaxBatch == 3

(***************************************************************************)
(* Program constants and the small universes the inputs are drawn from.    *)
(***************************************************************************)
\* the poison-reverse distance written by advertise_routes
INFINITY == 16

\* interface names of conf.ifaces, in enumeration order
IfaceNames == <<"eth0", "eth1">>
Ifaces == {IfaceNames[k] : k \in 1..Len(IfaceNames)}

\* an interface without an address (iface.ip is falsy)
NoIP == ""
\* the addresses of the network; an interface of this node carries one of
\* LocalIPs or none, and every address no interface carries is remote
IPs == {"10.0.0.1", "10.0.0.2", "10.0.0.5"}
LocalIPs == {"10.0.0.1", "10.0.0.2"}

\* pkt[IP].dst after forward_packet's assignment of None
NoneDst == "None"

Payloads == {"data"}

\* the distances a received advertisement is drawn from
AdvDistances == {d \in 0..MaxAdv : d <= MaxNear \/ d >= INFINITY - 1}

\* the distances of the advertisements received in SpecThreads
ThreadDistances == 0..MaxThread

(***************************************************************************)
(* Dictionary helpers.                                                     *)
(***************************************************************************)
EmptyDict == [k \in {} |-> 0]

\* d[k] = v
DictSet(d, k, v) == [x \in (DOMAIN d) \cup {k} |-> IF x = k THEN v ELSE d[x]]

\* insertion order of the keys after d[k] = v
KeysSet(keys, d, k) == IF k \in DOMAIN d THEN keys ELSE Append(keys, k)

\* set(d.values())
Values(d) == {d[k] : k \in DOMAIN d}

\* min(s) of a non-empty set of integers
Min(s) == CHOOSE x \in s : \A y \in s : x <= y

VARIABLES
    local_interfaces,   \* sequence of <<name, ip>>: the dict in insertion order
    routing_table,      \* destination -> (interface -> distance)
    rt_keys,            \* insertion order of routing_table's keys
    forwarding_table,   \* destination -> interface
    last,               \* the call the sniff callback made last, and its result
    recorded,           \* history: the least distance every
                        \* <<destination, interface>> was recorded with
    adv_pc,             \* advertise_routes: where the thread stands
    adv_i,              \* advertise_routes: position of the iteration over
                        \* local_interfaces.items()
    adv_it,             \* advertise_routes: the iterator over routing_table.items()
    adv_dest,           \* advertise_routes: dest
    adv_paths,          \* advertise_routes: paths
    adv_min,            \* advertise_routes: min_distance
    adv_todo,           \* advertise_routes: the items of paths still to visit
    adv_log,            \* the sendp calls of the advertisement pass
    net_topo,           \* SpecNet: the topology of the network
    net,                \* SpecNet: node -> its local_interfaces, routing_table,
                        \* rt_keys and forwarding_table
    net_round,          \* SpecNet: advertisement rounds completed
    net_done,           \* SpecNet: the nodes that have run their pass of the
                        \* current round
    rcv,                \* SpecThreads: where the receive thread stands in
                        \* update_routing_table
    batch               \* SpecOrder: the advertisements applied for one
                        \* destination, summarised

tables == <<local_interfaces, routing_table, rt_keys, forwarding_table>>
advvars == <<adv_pc, adv_i, adv_it, adv_dest, adv_paths, adv_min, adv_todo, adv_log>>
netvars == <<net_topo, net, net_round, net_done>>
othervars == <<rcv, batch>>
vars == <<local_interfaces, routing_table, rt_keys, forwarding_table, last, recorded,
          adv_pc, adv_i, adv_it, adv_dest, adv_paths, adv_min, adv_todo, adv_log,
          net_topo, net, net_round, net_done, rcv, batch>>

(***************************************************************************)
(* local_interfaces as a dictionary.                                       *)
(***************************************************************************)
LocalNames(li) == {li[k][1] : k \in 1..Len(li)}
LocalValues(li) == {li[k][2] : k \in 1..Len(li)}

(***************************************************************************)
(* initialize_routing: one pass over conf.ifaces (a sequence of            *)
(* <<name, ip>>), seeding the three dictionaries.                          *)
(***************************************************************************)
RECURSIVE initialize_routing(_)
initialize_routing(ifaces) ==
    IF ifaces = <<>>
    THEN [local_interfaces |-> <<>>, routing_table |-> EmptyDict,
          rt_keys |-> <<>>, forwarding_table |-> EmptyDict]
    ELSE LET n == Len(ifaces)
             prev == initialize_routing(SubSeq(ifaces, 1, n - 1))
             iface_name == ifaces[n][1]
             ip == ifaces[n][2]
         IN IF ip = NoIP
            THEN prev
            ELSE [local_interfaces |-> Append(prev.local_interfaces, <<iface_name, ip>>),
                  routing_table |-> DictSet(prev.routing_table, ip,
                                            [i \in {iface_name} |-> 0]),
                  rt_keys |-> KeysSet(prev.rt_keys, prev.routing_table, ip),
                  forwarding_table |-> DictSet(prev.forwarding_table, ip, iface_name)]

\* the configurations conf.ifaces can hold: every interface has an address
\* or none, and two interfaces may carry the same address
IfaceConfs ==
    {[k \in 1..Len(IfaceNames) |-> <<IfaceNames[k], f[k]>>] :
        f \in [1..Len(IfaceNames) -> LocalIPs \cup {NoIP}]}

(***************************************************************************)
(* Variants of update_routing_table with one slip each; the properties     *)
(* below are expected to tell every one of them from the code.             *)
(***************************************************************************)
\* a new destination is entered with a route that records no distance
update_routing_table_empty_route(rt, keys, ft, dest_ip, distance, recv_iface) ==
    LET new_distance == distance + 1
        current_paths == IF dest_ip \in DOMAIN rt THEN rt[dest_ip] ELSE EmptyDict
        unchanged == [routing_table |-> rt, rt_keys |-> keys,
                      forwarding_table |-> ft, updated |-> FALSE]
    IN IF recv_iface \in DOMAIN current_paths /\ current_paths[recv_iface] <= new_distance
       THEN unchanged
       ELSE IF dest_ip \notin DOMAIN rt
            THEN [routing_table |-> DictSet(rt, dest_ip, EmptyDict),
                  rt_keys |-> KeysSet(keys, rt, dest_ip),
                  forwarding_table |-> DictSet(ft, dest_ip, recv_iface),
                  updated |-> TRUE]
            ELSE IF DOMAIN current_paths = {} \/ new_distance < Min(Values(current_paths))
                 THEN [routing_table |-> DictSet(rt, dest_ip, [i \in {recv_iface} |-> new_distance]),
                       rt_keys |-> KeysSet(keys, rt, dest_ip),
                       forwarding_table |-> DictSet(ft, dest_ip, recv_iface),
                       updated |-> TRUE]
                 ELSE unchanged

\* the forwarding entry is written for a new destination only
update_routing_table_stale_forwarding(rt, keys, ft, dest_ip, distance, recv_iface) ==
    LET new_distance == distance + 1
        current_paths == IF dest_ip \in DOMAIN rt THEN rt[dest_ip] ELSE EmptyDict
        unchanged == [routing_table |-> rt, rt_keys |-> keys,
                      forwarding_table |-> ft, updated |-> FALSE]
    IN IF recv_iface \in DOMAIN current_paths /\ current_paths[recv_iface] <= new_distance
       THEN unchanged
       ELSE IF dest_ip \notin DOMAIN rt \/ new_distance < Min(Values(current_paths))
            THEN [routing_table |-> DictSet(rt, dest_ip, [i \in {recv_iface} |-> new_distance]),
                  rt_keys |-> KeysSet(keys, rt, dest_ip),
                  forwarding_table |-> IF dest_ip \in DOMAIN ft THEN ft
                                       ELSE DictSet(ft, dest_ip, recv_iface),
                  updated |-> TRUE]
            ELSE unchanged

\* the candidate is not compared with the distances on other interfaces
update_routing_table_no_comparison(rt, keys, ft, dest_ip, distance, recv_iface) ==
    LET new_distance == distance + 1
        current_paths == IF dest_ip \in DOMAIN rt THEN rt[dest_ip] ELSE EmptyDict
        unchanged == [routing_table |-> rt, rt_keys |-> keys,
                      forwarding_table |-> ft, updated |-> FALSE]
    IN IF recv_iface \in DOMAIN current_paths /\ current_paths[recv_iface] <= new_distance
       THEN unchanged
       ELSE [routing_table |-> DictSet(rt, dest_ip, [i \in {recv_iface} |-> new_distance]),
             rt_keys |-> KeysSet(keys, rt, dest_ip),
             forwarding_table |-> DictSet(ft, dest_ip, recv_iface),
             updated |-> TRUE]

\* the incremented distance wraps around at INFINITY
update_routing_table_wrapping(rt, keys, ft, dest_ip, distance, recv_iface) ==
    LET new_distance == (distance + 1) % INFINITY
        current_paths == IF dest_ip \in DOMAIN rt THEN rt[dest_ip] ELSE EmptyDict
        unchanged == [routing_table |-> rt, rt_keys |-> keys,
                      forwarding_table |-> ft, updated |-> FALSE]
    IN IF recv_iface \in DOMAIN current_paths /\ current_paths[recv_iface] <= new_distance
       THEN unchanged
       ELSE IF dest_ip \notin DOMAIN rt \/ new_distance < Min(Values(current_paths))
            THEN [routing_table |-> DictSet(rt, dest_ip, [i \in {recv_iface} |-> new_distance]),
                  rt_keys |-> KeysSet(keys, rt, dest_ip),
                  forwarding_table |-> DictSet(ft, dest_ip, recv_iface),
                  updated |-> TRUE]
            ELSE unchanged

\* an equal distance on another interface counts as shorter
update_routing_table_non_strict(rt, keys, ft, dest_ip, distance, recv_iface) ==
    LET new_distance == distance + 1
        current_paths == IF dest_ip \in DOMAIN rt THEN rt[dest_ip] ELSE EmptyDict
        unchanged == [routing_table |-> rt, rt_keys |-> keys,
                      forwarding_table |-> ft, updated |-> FALSE]
    IN IF recv_iface \in DOMAIN current_paths /\ current_paths[recv_iface] <= new_distance
       THEN unchanged
       ELSE IF dest_ip \notin DOMAIN rt \/ new_distance <= Min(Values(current_paths))
            THEN [routing_table |-> DictSet(rt, dest_ip, [i \in {recv_iface} |-> new_distance]),
                  rt_keys |-> KeysSet(keys, rt, dest_ip),
                  forwarding_table |-> DictSet(ft, dest_ip, recv_iface),
                  updated |-> TRUE]
            ELSE unchanged

(***************************************************************************)
(* update_routing_table(dest_ip, distance, recv_iface) on the tables       *)
(* (rt, keys, ft); the result holds the tables afterwards and the value    *)
(* returned.                                                               *)
(***************************************************************************)
update_routing_table(rt, keys, ft, dest_ip, distance, recv_iface) ==
    LET new_distance == distance + 1
        current_paths == IF dest_ip \in DOMAIN rt THEN rt[dest_ip] ELSE EmptyDict
        unchanged == [routing_table |-> rt, rt_keys |-> keys,
                      forwarding_table |-> ft, updated |-> FALSE]
    IN IF recv_iface \in DOMAIN current_paths /\ current_paths[recv_iface] <= new_distance
       THEN unchanged
       ELSE IF dest_ip \notin DOMAIN rt \/ new_distance < Min(Values(current_paths))
            THEN [routing_table |-> DictSet(rt, dest_ip, [i \in {recv_iface} |-> new_distance]),
                  rt_keys |-> KeysSet(keys, rt, dest_ip),
                  forwarding_table |-> DictSet(ft, dest_ip, recv_iface),
                  updated |-> TRUE]
            ELSE unchanged

\* a variant of forward_packet without the test of line 103
forward_packet_no_local_check(li, rt, ft, pkt, send_ok) ==
    IF ~pkt.has_ip
    THEN [sent |-> <<>>, outcome |-> "non_ip"]
    ELSE LET dest_ip == pkt.dst
         IN IF dest_ip \in DOMAIN rt /\ DOMAIN rt[dest_ip] # {}
            THEN IF dest_ip \in DOMAIN ft /\ ft[dest_ip] # ""
                 THEN IF send_ok
                      THEN [sent |-> <<[iface |-> ft[dest_ip],
                                        pkt |-> [pkt EXCEPT !.dst = NoneDst]]>>,
                            outcome |-> "forwarded"]
                      ELSE [sent |-> <<>>, outcome |-> "send_error"]
                 ELSE [sent |-> <<>>, outcome |-> "no_iface"]
            ELSE [sent |-> <<>>, outcome |-> "no_route"]

(***************************************************************************)
(* forward_packet(pkt).  send_ok tells whether sendp returns or raises.    *)
(* The result lists the frames put on the wire and names the branch taken. *)
(***************************************************************************)
forward_packet(li, rt, ft, pkt, send_ok) ==
    IF ~pkt.has_ip
    THEN [sent |-> <<>>, outcome |-> "non_ip"]
    ELSE LET dest_ip == pkt.dst
         IN IF dest_ip \in LocalValues(li)
            THEN [sent |-> <<>>, outcome |-> "local"]
            ELSE IF dest_ip \in DOMAIN rt /\ DOMAIN rt[dest_ip] # {}
                 THEN IF dest_ip \in DOMAIN ft /\ ft[dest_ip] # ""
                      THEN IF send_ok
                           THEN [sent |-> <<[iface |-> ft[dest_ip],
                                             pkt |-> [pkt EXCEPT !.dst = NoneDst]]>>,
                                 outcome |-> "forwarded"]
                           ELSE [sent |-> <<>>, outcome |-> "send_error"]
                      ELSE [sent |-> <<>>, outcome |-> "no_iface"]
                 ELSE [sent |-> <<>>, outcome |-> "no_route"]

(***************************************************************************)
(* The node: main() runs initialize_routing and then hands every sniffed   *)
(* frame to handle_route_advertisement or to forward_packet.               *)
(***************************************************************************)
NoCall == [op |-> "init", dest |-> NoIP, distance |-> 0, iface |-> "",
           updated |-> FALSE, sent |-> <<>>, outcome |-> ""]

\* the state main() leaves when initialize_routing has returned
InitNode ==
    \E c \in IfaceConfs :
        LET t == initialize_routing(c)
        IN /\ local_interfaces = t.local_interfaces
           /\ routing_table = t.routing_table
           /\ rt_keys = t.rt_keys
           /\ forwarding_table = t.forwarding_table
           /\ last = NoCall

\* update_routing_table called on the node's tables
UpdateCall(dest_ip, distance, recv_iface) ==
    update_routing_table(routing_table, rt_keys, forwarding_table,
                         dest_ip, distance, recv_iface)

\* forward_packet called on the node's tables
ForwardCall(pkt, send_ok) ==
    forward_packet(local_interfaces, routing_table, forwarding_table, pkt, send_ok)

\* a data packet for dst as sniff hands it over
DataPacket(dst, payload) == [has_ip |-> TRUE, dst |-> dst, payload |-> payload]

\* a TableProtocol frame sniffed on recv_iface
handle_route_advertisement(dest_ip, distance, recv_iface) ==
    LET r == UpdateCall(dest_ip, distance, recv_iface)
    IN /\ routing_table' = r.routing_table
       /\ rt_keys' = r.rt_keys
       /\ forwarding_table' = r.forwarding_table
       /\ UNCHANGED local_interfaces

(***************************************************************************)
(* advertise_routes, the daemon thread main() starts.  One step of the     *)
(* thread runs up to its next call of next() on an iterator, of sendp or   *)
(* of time.sleep.                                                          *)
(*   adv_pc = "while"  at the head of the while loop                       *)
(*            "ifaces" at next() of the loop over local_interfaces.items() *)
(*            "dests"  at next() of the loop over routing_table.items()    *)
(*            "send"   at the sendp of the next item of paths              *)
(*            "sleep"  in time.sleep(5)                                    *)
(*            "dead"   terminated by an exception nothing catches          *)
(***************************************************************************)
\* no item of routing_table read yet
NoPaths == EmptyDict

InitAdvertiser ==
    /\ adv_pc = "while"
    /\ adv_i = 0
    /\ adv_it = [used |-> 0, pos |-> 0]
    /\ adv_dest = NoIP
    /\ adv_paths = NoPaths
    /\ adv_min = 0
    /\ adv_todo = <<>>
    /\ adv_log = <<>>

\* paths.items() in the order of the dictionary; every dictionary the code
\* builds has one key, more keys are taken in the order of IfaceNames
RECURSIVE ItemsFrom(_, _)
ItemsFrom(paths, k) ==
    IF k > Len(IfaceNames) THEN <<>>
    ELSE (IF IfaceNames[k] \in DOMAIN paths
          THEN <<<<IfaceNames[k], paths[IfaceNames[k]]>>>> ELSE <<>>)
         \o ItemsFrom(paths, k + 1)

Items(paths) == ItemsFrom(paths, 1)

\* the distance line 56 puts into the advertisement
advertised_distance_incremented(path_iface, iface, min_distance) ==
    IF path_iface = iface THEN INFINITY ELSE min_distance + 1

advertised_distance(path_iface, iface, min_distance) ==
    IF path_iface = iface THEN INFINITY ELSE min_distance

\* while True: the for loop over local_interfaces.items() begins
AdvStartPass ==
    /\ adv_pc = "while"
    /\ adv_pc' = "ifaces"
    /\ adv_i' = 0
    /\ adv_log' = <<>>
    /\ UNCHANGED <<adv_it, adv_dest, adv_paths, adv_min, adv_todo>>

\* next() of the outer loop: the next interface and a new iterator over
\* routing_table.items(), or the end of the pass and time.sleep(5)
AdvNextIface ==
    /\ adv_pc = "ifaces"
    /\ IF adv_i < Len(local_interfaces)
       THEN /\ adv_i' = adv_i + 1
            /\ adv_it' = [used |-> Len(rt_keys), pos |-> 0]
            /\ adv_pc' = "dests"
       ELSE /\ adv_pc' = "sleep"
            /\ UNCHANGED <<adv_i, adv_it>>
    /\ UNCHANGED <<adv_dest, adv_paths, adv_min, adv_todo, adv_log>>

\* next() of the inner loop: RuntimeError when the dictionary changed size,
\* else the next (dest, paths) and min(paths.values()), or the end of the loop
AdvNextDest ==
    /\ adv_pc = "dests"
    /\ IF adv_it.used # Len(rt_keys)
       THEN /\ adv_pc' = "dead"
            /\ UNCHANGED <<adv_it, adv_dest, adv_paths, adv_min, adv_todo>>
       ELSE IF adv_it.pos < Len(rt_keys)
            THEN LET dest == rt_keys[adv_it.pos + 1]
                     paths == routing_table[dest]
                 IN /\ adv_it' = [adv_it EXCEPT !.pos = adv_it.pos + 1]
                    /\ adv_dest' = dest
                    /\ adv_paths' = paths
                    /\ IF DOMAIN paths = {}
                       THEN /\ adv_pc' = "dead"
                            /\ UNCHANGED <<adv_min, adv_todo>>
                       ELSE /\ adv_min' = Min(Values(paths))
                            /\ adv_todo' = Items(paths)
                            /\ adv_pc' = "send"
            ELSE /\ adv_pc' = "ifaces"
                 /\ UNCHANGED <<adv_it, adv_dest, adv_paths, adv_min, adv_todo>>
    /\ UNCHANGED <<adv_i, adv_log>>

\* a variant of the loop body in which the exception of sendp is not caught
AdvSend_failure_aborts ==
    /\ adv_pc = "send"
    /\ \E send_ok \in BOOLEAN :
        LET iface == local_interfaces[adv_i][1]
            iface_ip == local_interfaces[adv_i][2]
            path_iface == adv_todo[1][1]
            pkt == [src |-> iface_ip, destination |-> adv_dest,
                    distance |-> advertised_distance(path_iface, iface, adv_min)]
        IN /\ adv_log' = Append(adv_log, [iface |-> iface, pkt |-> pkt, sent |-> send_ok])
           /\ adv_pc' = IF ~send_ok THEN "dead"
                        ELSE IF Len(adv_todo) > 1 THEN "send" ELSE "dests"
    /\ adv_todo' = Tail(adv_todo)
    /\ UNCHANGED <<adv_i, adv_it, adv_dest, adv_paths, adv_min>>

\* the body of the loop over paths.items(): the advertisement is built and
\* handed to sendp, which returns (send_ok) or raises into the except clause
AdvSend ==
    /\ adv_pc = "send"
    /\ \E send_ok \in BOOLEAN :
        LET iface == local_interfaces[adv_i][1]
            iface_ip == local_interfaces[adv_i][2]
            path_iface == adv_todo[1][1]
            pkt == [src |-> iface_ip, destination |-> adv_dest,
                    distance |-> advertised_distance(path_iface, iface, adv_min)]
        IN adv_log' = Append(adv_log, [iface |-> iface, pkt |-> pkt, sent |-> send_ok])
    /\ adv_todo' = Tail(adv_todo)
    /\ adv_pc' = IF Len(adv_todo) > 1 THEN "send" ELSE "dests"
    /\ UNCHANGED <<adv_i, adv_it, adv_dest, adv_paths, adv_min>>

\* time.sleep(5) returns
AdvWake ==
    /\ adv_pc = "sleep"
    /\ adv_pc' = "while"
    /\ adv_log' = <<>>
    /\ UNCHANGED <<adv_i, adv_it, adv_dest, adv_paths, adv_min, adv_todo>>

advertise_routes == AdvStartPass \/ AdvNextIface \/ AdvNextDest \/ AdvSend \/ AdvWake

\* the receive thread between two sniffed frames
NoUpdate == [pc |-> "sniff", dest |-> NoIP, iface |-> ""]

\* no batch of advertisements under observation
NoBatch == [dest |-> NoIP, known |-> FALSE, initial |-> 0, any |-> FALSE, least |-> 0, count |-> 0]

\* the network of SpecNet, the position of the receive thread and the batch
\* of SpecOrder, left out of the specifications that do not use them
NoNet ==
    /\ net_topo = ""
    /\ net = <<>>
    /\ net_round = 0
    /\ net_done = {}
    /\ rcv = NoUpdate
    /\ batch = NoBatch

(***************************************************************************)
(* Spec: the receive loop of one node, one sniffed frame per step.  The    *)
(* sniff callback of main() sends a frame that carries TableProtocol to    *)
(* handle_route_advertisement and any other IP frame to forward_packet.    *)
(* last observes the call and its result.                                  *)
(***************************************************************************)
Init == InitNode /\ recorded = EmptyDict /\ InitAdvertiser /\ NoNet

ReceiveAdvertisement ==
    \E dest_ip \in IPs, distance \in AdvDistances, recv_iface \in LocalNames(local_interfaces) :
        /\ handle_route_advertisement(dest_ip, distance, recv_iface)
        /\ last' = [op |-> "update", dest |-> dest_ip, distance |-> distance,
                    iface |-> recv_iface,
                    updated |-> UpdateCall(dest_ip, distance, recv_iface).updated,
                    sent |-> <<>>, outcome |-> ""]
        /\ UNCHANGED <<recorded, advvars, netvars, othervars>>

\* a variant of the data branch that gives up the route of a destination
\* when the send raises
ReceiveData_drops_failed_route ==
    \E dst \in IPs, recv_iface \in LocalNames(local_interfaces),
       payload \in Payloads, send_ok \in BOOLEAN :
        LET r == ForwardCall(DataPacket(dst, payload), send_ok)
        IN /\ last' = [op |-> "forward", dest |-> dst, distance |-> 0,
                       iface |-> recv_iface, updated |-> FALSE,
                       sent |-> r.sent, outcome |-> r.outcome]
           /\ forwarding_table' = IF r.outcome = "send_error"
                                  THEN [d \in DOMAIN forwarding_table \ {dst} |->
                                            forwarding_table[d]]
                                  ELSE forwarding_table
           /\ UNCHANGED <<local_interfaces, routing_table, rt_keys,
                          recorded, advvars, netvars, othervars>>

ReceiveData ==
    \E dst \in IPs, recv_iface \in LocalNames(local_interfaces),
       payload \in Payloads, send_ok \in BOOLEAN :
        LET r == ForwardCall(DataPacket(dst, payload), send_ok)
        IN /\ last' = [op |-> "forward", dest |-> dst, distance |-> 0,
                       iface |-> recv_iface, updated |-> FALSE,
                       sent |-> r.sent, outcome |-> r.outcome]
           /\ UNCHANGED <<tables, recorded, advvars, netvars, othervars>>

Next == ReceiveAdvertisement \/ ReceiveData

Spec == Init /\ [][Next]_vars

(***************************************************************************)
(* SpecHist: the advertisements one node receives, observed by the history *)
(* variable recorded: the least distance every <<destination, interface>>  *)
(* has been recorded with so far.                                          *)
(***************************************************************************)
Record(rec, rt) ==
    LET now == UNION {{<<d, i>> : i \in DOMAIN rt[d]} : d \in DOMAIN rt}
    IN [p \in (DOMAIN rec) \cup now |->
           IF p \in now
           THEN IF p \in DOMAIN rec /\ rec[p] < rt[p[1]][p[2]]
                THEN rec[p] ELSE rt[p[1]][p[2]]
           ELSE rec[p]]

InitHist ==
    InitNode /\ recorded = Record(EmptyDict, routing_table) /\ InitAdvertiser /\ NoNet

ReceiveAdvertisementHist ==
    \E dest_ip \in IPs, distance \in AdvDistances, recv_iface \in LocalNames(local_interfaces) :
        /\ handle_route_advertisement(dest_ip, distance, recv_iface)
        /\ recorded' = Record(recorded, routing_table')
        /\ UNCHANGED <<last, advvars, netvars, othervars>>

NextHist == ReceiveAdvertisementHist

SpecHist == InitHist /\ [][NextHist]_vars

(***************************************************************************)
(* SpecPass: the advertiser thread and the advertisements the node         *)
(* receives, with update_routing_table running between two passes only.    *)
(***************************************************************************)
InitPass == InitNode /\ recorded = EmptyDict /\ InitAdvertiser /\ NoNet

ReceiveBetweenPasses ==
    /\ adv_pc = "while"
    /\ \E dest_ip \in IPs, distance \in AdvDistances,
          recv_iface \in LocalNames(local_interfaces) :
           handle_route_advertisement(dest_ip, distance, recv_iface)
    /\ UNCHANGED <<last, recorded, advvars, netvars, othervars>>

PassStart == AdvStartPass /\ UNCHANGED <<tables, last, recorded, netvars, othervars>>
PassNextIface == AdvNextIface /\ UNCHANGED <<tables, last, recorded, netvars, othervars>>
PassNextDest == AdvNextDest /\ UNCHANGED <<tables, last, recorded, netvars, othervars>>
PassSend == AdvSend /\ UNCHANGED <<tables, last, recorded, netvars, othervars>>
PassWake == AdvWake /\ UNCHANGED <<tables, last, recorded, netvars, othervars>>

NextPass ==
    \/ ReceiveBetweenPasses
    \/ PassStart
    \/ PassNextIface
    \/ PassNextDest
    \/ PassSend
    \/ PassWake

SpecPass == InitPass /\ [][NextPass]_vars

(***************************************************************************)
(* SpecThreads: the two threads of main() as the code starts them, with no *)
(* lock between them.  The advertiser thread takes its steps at any time.  *)
(* The receive thread runs update_routing_table for a sniffed              *)
(* advertisement in two steps: up to and including the write of            *)
(* routing_table (line 78), and the write of forwarding_table (line 79).   *)
(* Only the receive thread writes the tables, so what it reads is not      *)
(* affected by the steps of the advertiser in between.                     *)
(***************************************************************************)
InitThreads == InitNode /\ recorded = EmptyDict /\ InitAdvertiser /\ NoNet

\* lines 68-78 for the next sniffed advertisement: the call returns False, or
\* routing_table[dest_ip] is written and line 79 is still to run
ThreadsUpdateRoute ==
    /\ rcv.pc = "sniff"
    /\ \E dest_ip \in IPs, distance \in ThreadDistances,
          recv_iface \in LocalNames(local_interfaces) :
           LET r == UpdateCall(dest_ip, distance, recv_iface)
           IN IF r.updated
              THEN /\ routing_table' = r.routing_table
                   /\ rt_keys' = r.rt_keys
                   /\ rcv' = [pc |-> "line79", dest |-> dest_ip, iface |-> recv_iface]
              ELSE UNCHANGED <<routing_table, rt_keys, rcv>>
    /\ UNCHANGED <<local_interfaces, forwarding_table, last, recorded, advvars, netvars, batch>>

\* line 79 and the return of update_routing_table
ThreadsUpdateForwarding ==
    /\ rcv.pc = "line79"
    /\ forwarding_table' = DictSet(forwarding_table, rcv.dest, rcv.iface)
    /\ rcv' = NoUpdate
    /\ UNCHANGED <<local_interfaces, routing_table, rt_keys, last, recorded, advvars, netvars, batch>>

ThreadsStart == AdvStartPass /\ UNCHANGED <<tables, last, recorded, netvars, othervars>>
ThreadsNextIface == AdvNextIface /\ UNCHANGED <<tables, last, recorded, netvars, othervars>>
ThreadsNextDest == AdvNextDest /\ UNCHANGED <<tables, last, recorded, netvars, othervars>>
ThreadsSend == AdvSend /\ UNCHANGED <<tables, last, recorded, netvars, othervars>>
ThreadsWake == AdvWake /\ UNCHANGED <<tables, last, recorded, netvars, othervars>>

\* one step of the advertiser thread
ThreadsAdvertiser ==
    \/ ThreadsStart
    \/ ThreadsNextIface
    \/ ThreadsNextDest
    \/ ThreadsSend
    \/ ThreadsWake

NextThreads ==
    \/ ThreadsUpdateRoute
    \/ ThreadsUpdateForwarding
    \/ ThreadsAdvertiser

SpecThreads == InitThreads /\ [][NextThreads]_vars

\* the scheduler lets a thread that can take a step take it eventually
SpecThreadsFair ==
    /\ SpecThreads
    /\ WF_vars(ThreadsAdvertiser)
    /\ WF_vars(ThreadsUpdateForwarding)

(***************************************************************************)
(* SpecOrder: the receive loop of one node, with the advertisements for    *)
(* one destination observed as a batch.  Advertisements for any            *)
(* destination arrive first; then the batch begins for a destination, and  *)
(* up to MaxBatch advertisements for it arrive in any order.  batch keeps  *)
(* what the order cannot change: whether the destination was known when    *)
(* the batch began and with which effective distance, the least distance   *)
(* advertised since, and the number of advertisements.                     *)
(***************************************************************************)
InitOrder == InitNode /\ recorded = EmptyDict /\ InitAdvertiser /\ NoNet

\* an advertisement received before the batch begins
OrderBefore ==
    /\ batch = NoBatch
    /\ \E dest_ip \in IPs, distance \in AdvDistances,
          recv_iface \in LocalNames(local_interfaces) :
           handle_route_advertisement(dest_ip, distance, recv_iface)
    /\ UNCHANGED <<last, recorded, advvars, netvars, othervars>>

\* the batch begins: the tables as they are become its initial table
OrderBegin ==
    /\ batch = NoBatch
    /\ \E dest_ip \in IPs :
           batch' = [dest |-> dest_ip,
                     known |-> dest_ip \in DOMAIN routing_table,
                     initial |-> IF dest_ip \in DOMAIN routing_table
                                 THEN Min(Values(routing_table[dest_ip])) ELSE 0,
                     any |-> FALSE, least |-> 0, count |-> 0]
    /\ UNCHANGED <<tables, last, recorded, advvars, netvars, rcv>>

\* the next advertisement of the batch goes through update_routing_table
OrderApply ==
    /\ batch.dest # NoIP
    /\ batch.count < MaxBatch
    /\ \E distance \in AdvDistances, recv_iface \in LocalNames(local_interfaces) :
           /\ handle_route_advertisement(batch.dest, distance, recv_iface)
           /\ batch' = [batch EXCEPT !.any = TRUE,
                                     !.least = IF batch.any /\ batch.least < distance
                                               THEN batch.least ELSE distance,
                                     !.count = batch.count + 1]
    /\ UNCHANGED <<last, recorded, advvars, netvars, rcv>>

NextOrder == OrderBefore \/ OrderBegin \/ OrderApply

SpecOrder == InitOrder /\ [][NextOrder]_vars

(***************************************************************************)
(* A whole advertisement pass of advertise_routes over tables that do not  *)
(* change while it runs: the frames handed to sendp, in order.             *)
(***************************************************************************)
RECURSIVE PathAdvertisements(_, _, _, _, _)
PathAdvertisements(items, iface, iface_ip, dest, min_distance) ==
    IF items = <<>> THEN <<>>
    ELSE <<[iface |-> iface,
            pkt |-> [src |-> iface_ip, destination |-> dest,
                     distance |-> advertised_distance(items[1][1], iface, min_distance)]]>>
         \o PathAdvertisements(Tail(items), iface, iface_ip, dest, min_distance)

RECURSIVE DestAdvertisements(_, _, _, _, _)
DestAdvertisements(rt, keys, p, iface, iface_ip) ==
    IF p > Len(keys) THEN <<>>
    ELSE LET dest == keys[p]
             paths == rt[dest]
             min_distance == Min(Values(paths))
         IN PathAdvertisements(Items(paths), iface, iface_ip, dest, min_distance)
            \o DestAdvertisements(rt, keys, p + 1, iface, iface_ip)

RECURSIVE advertisement_pass(_, _, _, _)
advertisement_pass(li, rt, keys, k) ==
    IF k > Len(li) THEN <<>>
    ELSE DestAdvertisements(rt, keys, 1, li[k][1], li[k][2])
         \o advertisement_pass(li, rt, keys, k + 1)

(***************************************************************************)
(* SpecNet: a static network of nodes that all run this program, as the    *)
(* topologies of src/topology.py wire them: a chain ("bar") or a ring of   *)
(* NumNodes nodes.  Node n reaches node n + 1 through its eth1 and node    *)
(* n - 1 through its eth0; every interface has an address of its own.  No  *)
(* frame is lost: what a node sends on a link is sniffed by the node at    *)
(* the other end and goes through handle_route_advertisement there.  In a  *)
(* round every node runs one advertisement pass, in any order.             *)
(***************************************************************************)
Nodes == 1..NumNodes
Topologies == {"bar", "ring"}

\* the node an interface of node n leads to, 0 when it leads to no node
Peer(topo, n, iface) ==
    IF iface = "eth1"
    THEN IF n < NumNodes THEN n + 1 ELSE IF topo = "ring" THEN 1 ELSE 0
    ELSE IF n > 1 THEN n - 1 ELSE IF topo = "ring" THEN NumNodes ELSE 0

\* the interface at the other end of the link
PeerIface(iface) == IF iface = "eth1" THEN "eth0" ELSE "eth1"

\* the address of an interface of node n
NetIP(n, iface) ==
    "10.0." \o ToString(n) \o (IF iface = "eth0" THEN ".1" ELSE ".254")

\* conf.ifaces of node n
NetConf(n) == [k \in 1..Len(IfaceNames) |-> <<IfaceNames[k], NetIP(n, IfaceNames[k])>>]

\* the nodes within k hops of node n
RECURSIVE Within(_, _, _)
Within(topo, n, k) ==
    IF k = 0 THEN {n}
    ELSE LET near == Within(topo, n, k - 1)
         IN near \cup {m \in Nodes : \E x \in near, i \in Ifaces : Peer(topo, x, i) = m}

\* shortest-path hop count between two nodes, and the diameter
Hops(topo, n, m) == Min({k \in 0..NumNodes : m \in Within(topo, n, k)})
Diameter(topo) == CHOOSE k \in 0..NumNodes :
                      /\ \A n, m \in Nodes : Hops(topo, n, m) <= k
                      /\ \E n, m \in Nodes : Hops(topo, n, m) = k

\* the frames of one pass delivered, one after the other, to the neighbours
RECURSIVE Deliver(_, _, _, _)
Deliver(topo, state, n, frames) ==
    IF frames = <<>> THEN state
    ELSE LET f == frames[1]
             m == Peer(topo, n, f.iface)
         IN IF m = 0
            THEN Deliver(topo, state, n, Tail(frames))
            ELSE LET r == update_routing_table(state[m].routing_table, state[m].rt_keys,
                                               state[m].forwarding_table,
                                               f.pkt.destination, f.pkt.distance,
                                               PeerIface(f.iface))
                 IN Deliver(topo,
                            [state EXCEPT ![m] =
                                [local_interfaces |-> state[m].local_interfaces,
                                 routing_table |-> r.routing_table,
                                 rt_keys |-> r.rt_keys,
                                 forwarding_table |-> r.forwarding_table]],
                            n, Tail(frames))

\* the single node of the other specifications, left out of SpecNet
NoNode ==
    /\ local_interfaces = <<>>
    /\ routing_table = EmptyDict
    /\ rt_keys = <<>>
    /\ forwarding_table = EmptyDict
    /\ last = NoCall
    /\ recorded = EmptyDict
    /\ InitAdvertiser
    /\ rcv = NoUpdate
    /\ batch = NoBatch

InitNet ==
    /\ NoNode
    /\ net_topo \in Topologies
    /\ net = [n \in Nodes |-> initialize_routing(NetConf(n))]
    /\ net_round = 0
    /\ net_done = {}

\* node n runs the advertisement pass of the round
NetAdvertise(n) ==
    /\ n \notin net_done
    /\ net_round < Diameter(net_topo) + ExtraRounds
    /\ net' = Deliver(net_topo, net, n,
                      advertisement_pass(net[n].local_interfaces, net[n].routing_table,
                                         net[n].rt_keys, 1))
    /\ IF net_done \cup {n} = Nodes
       THEN net_round' = net_round + 1 /\ net_done' = {}
       ELSE net_round' = net_round /\ net_done' = net_done \cup {n}
    /\ UNCHANGED <<net_topo, tables, last, recorded, advvars, othervars>>

NextNet == \E n \in Nodes : NetAdvertise(n)

SpecNet == InitNet /\ [][NextNet]_vars

(***************************************************************************)
(* The notions of the route table the properties are stated with.          *)
(***************************************************************************)
\* the destination has a route entry with at least one recorded distance
Known(rt, d) == d \in DOMAIN rt /\ DOMAIN rt[d] # {}

\* min over the recorded distances of a known destination
effectiveDistance(rt, d) == Min(Values(rt[d]))

\* i is an interface that achieves the effective distance of d
Selects(rt, d, i) == Known(rt, d) /\ i \in DOMAIN rt[d] /\ rt[d][i] = effectiveDistance(rt, d)

\* d is the address of one of this node's interfaces
IsLocal(d) == d \in LocalValues(local_interfaces)

\* the frames forward_packet puts on the wire for a packet to d when the
\* send succeeds
Forwards(rt, ft, d) ==
    forward_packet(local_interfaces, rt, ft, DataPacket(d, "data"), TRUE).sent

TablesUnchanged ==
    /\ routing_table' = routing_table
    /\ rt_keys' = rt_keys
    /\ forwarding_table' = forwarding_table

\* the interface initialize_routing seeded last with the address addr
LastSeeded(li, addr) ==
    li[CHOOSE k \in 1..Len(li) :
           /\ li[k][2] = addr
           /\ \A j \in 1..Len(li) : li[j][2] = addr => j <= k][1]

(***************************************************************************)
(* C1.  Forwarding consistency: in every state the receive loop reaches,   *)
(* every destination of routing_table has a forwarding_table entry, and    *)
(* that entry is the interface whose recorded distance is the minimum of   *)
(* the destination's recorded distances.                                   *)
(***************************************************************************)
C1_ForwardingConsistency ==
    \A d \in DOMAIN routing_table :
        /\ Known(routing_table, d)
        /\ d \in DOMAIN forwarding_table
        /\ Selects(routing_table, d, forwarding_table[d])

\* an advertisement has just changed the tables, and two remote destinations
\* are routed through two different interfaces
C1_Witness ==
    /\ last.op = "update" /\ last.updated
    /\ Cardinality({forwarding_table[d] : d \in {x \in DOMAIN forwarding_table : ~IsLocal(x)}}) = 2

C3_PoisonInvalidatesRoute ==
    [][ (/\ last'.op = "update"
         /\ last'.distance + 1 >= INFINITY
         /\ ~IsLocal(last'.dest)
         /\ Selects(routing_table, last'.dest, last'.iface))
        => (/\ last'.updated
            /\ \/ ~Known(routing_table', last'.dest)
               \/ last'.iface \notin DOMAIN routing_table'[last'.dest]
               \/ routing_table'[last'.dest][last'.iface] >= INFINITY
            /\ Forwards(routing_table', forwarding_table', last'.dest) = <<>>) ]_vars

(***************************************************************************)
(* C4.  Poison reverse never creates a route: after a call of              *)
(* update_routing_table with advertised distance 16, the effective         *)
(* distance of the destination is at least 16, unless the destination was  *)
(* known before the call with the same effective distance.                 *)
(***************************************************************************)
C4_PoisonNeverCreatesRoute ==
    [][ (last'.op = "update" /\ last'.distance = INFINITY)
        => (Known(routing_table', last'.dest)
            => \/ effectiveDistance(routing_table', last'.dest) >= INFINITY
               \/ /\ Known(routing_table, last'.dest)
                  /\ effectiveDistance(routing_table, last'.dest)
                       = effectiveDistance(routing_table', last'.dest)) ]_vars

\* an advertisement of distance 16 has just changed the tables
C4_Witness ==
    /\ last.op = "update" /\ last.distance = INFINITY /\ last.updated
    /\ Known(routing_table, last.dest)

(***************************************************************************)
(* C5 as claimed.  An advertisement with distance >= 16 received on an     *)
(* interface that is not the selected interface of the destination         *)
(* (unknown destinations included) is ignored: both tables stay as they    *)
(* are and the call returns False.                                         *)
(***************************************************************************)
C5_InfinityNeverMerged ==
    [][ (/\ last'.op = "update"
         /\ last'.distance >= INFINITY
         /\ ~Selects(routing_table, last'.dest, last'.iface))
        => (TablesUnchanged /\ ~last'.updated) ]_vars

(***************************************************************************)
(* C6.  Loop suppression: once routing_table[d] has recorded a distance    *)
(* dist for interface i, every call update_routing_table(d, a, i) with     *)
(* a >= dist, and every call with a + 1 >= the distance now recorded for   *)
(* i, returns False and leaves both tables unchanged.                      *)
(***************************************************************************)
C6_LoopSuppression ==
    \A d \in IPs, i \in LocalNames(local_interfaces), a \in AdvDistances :
        (\/ <<d, i>> \in DOMAIN recorded /\ a >= recorded[<<d, i>>]
         \/ /\ Known(routing_table, d) /\ i \in DOMAIN routing_table[d]
            /\ a + 1 >= routing_table[d][i])
        => LET r == UpdateCall(d, a, i)
           IN /\ ~r.updated
              /\ r.routing_table = routing_table
              /\ r.rt_keys = rt_keys
              /\ r.forwarding_table = forwarding_table

\* a distance was recorded for a remote destination on an interface, and the
\* destination has since moved to another interface
C6_Witness ==
    \E p \in DOMAIN recorded :
        /\ ~IsLocal(p[1])
        /\ p[2] \notin DOMAIN routing_table[p[1]]

(***************************************************************************)
(* C9.  Relaxation: for a call update_routing_table(dest, distance,        *)
(* recv_iface) with candidate = distance + 1 < 16 that the same-interface  *)
(* rule does not suppress, if dest is unknown or candidate is below its    *)
(* effective distance, then afterwards the effective distance is           *)
(* candidate, recv_iface is the selected interface and the forwarding      *)
(* entry, and the call returns True; every other call with candidate < 16  *)
(* returns False and changes no table.  The value returned is True exactly *)
(* when a table changed.                                                   *)
(***************************************************************************)
C9_Relaxation ==
    [][ last'.op = "update" =>
        LET d == last'.dest
            i == last'.iface
            candidate == last'.distance + 1
            suppressed == /\ Known(routing_table, d) /\ i \in DOMAIN routing_table[d]
                          /\ routing_table[d][i] <= candidate
            improves == \/ ~Known(routing_table, d)
                        \/ candidate < effectiveDistance(routing_table, d)
        IN /\ (candidate < INFINITY /\ ~suppressed /\ improves)
              => /\ Known(routing_table', d)
                 /\ effectiveDistance(routing_table', d) = candidate
                 /\ \A j \in Ifaces : Selects(routing_table', d, j) <=> j = i
                 /\ forwarding_table'[d] = i
                 /\ last'.updated
           /\ (candidate < INFINITY /\ ~(~suppressed /\ improves))
              => (~last'.updated /\ TablesUnchanged)
           /\ last'.updated <=> ~(routing_table' = routing_table
                                  /\ forwarding_table' = forwarding_table) ]_vars

\* an advertisement with candidate distance below 16 has just been merged
C9_Witness ==
    /\ last.op = "update" /\ last.updated /\ last.distance + 1 < INFINITY
    /\ routing_table[last.dest] = [i \in {last.iface} |-> last.distance + 1]
    /\ forwarding_table[last.dest] = last.iface

(***************************************************************************)
(* C10 as claimed.  No loop-back forwarding: when a data packet for a      *)
(* destination that is not a local address arrives on the interface that   *)
(* is the destination's egress, forward_packet transmits nothing; no       *)
(* packet leaves through the interface it arrived on.                      *)
(***************************************************************************)
C10_NoLoopBack ==
    (/\ last.op = "forward"
     /\ ~IsLocal(last.dest))
    => /\ (last.dest \in DOMAIN forwarding_table
           /\ forwarding_table[last.dest] = last.iface) => last.sent = <<>>
       /\ \A k \in 1..Len(last.sent) : last.sent[k].iface # last.iface

(***************************************************************************)
(* C8.  Split horizon with poison reverse: in an advertisement pass, every *)
(* advertisement handed to sendp for destination d on interface i carries  *)
(* 16 if i is the selected interface of d and the effective distance of d, *)
(* not incremented, otherwise; no (i, d) gets two advertisements; and the  *)
(* pass that has run to its end has handed over exactly one advertisement  *)
(* for every local interface i and every destination d of routing_table.   *)
(***************************************************************************)
AdvertisementsFor(i, d) ==
    {k \in 1..Len(adv_log) : adv_log[k].iface = i /\ adv_log[k].pkt.destination = d}

NetConverged ==
    \A n, m \in Nodes, i \in Ifaces :
        /\ Known(net[n].routing_table, NetIP(m, i))
        /\ effectiveDistance(net[n].routing_table, NetIP(m, i)) = Hops(net_topo, n, m)

C7_ConvergesWithinDiameter ==
    [][ /\ net_round' >= Diameter(net_topo) => NetConverged'
        /\ net_round >= Diameter(net_topo) => net' = net ]_vars

(***************************************************************************)
(* C11 as claimed.  All table accesses are serialized: the advertiser      *)
(* thread is never inside an advertisement pass while the receive thread   *)
(* is inside update_routing_table; the advertiser never holds a            *)
(* destination whose routing_table entry has been written while its        *)
(* forwarding_table entry has not; and a pass that has run to its end has  *)
(* advertised one table state, the same destinations on every interface.   *)
(***************************************************************************)
InPass == adv_pc \in {"ifaces", "dests", "send"}

C11_TableAccessSerialized ==
    /\ ~(InPass /\ rcv.pc = "line79")
    /\ adv_pc = "send" =>
           ~(/\ rcv.pc = "line79" /\ rcv.dest = adv_dest
             /\ adv_paths = routing_table[adv_dest]
             /\ (adv_dest \notin DOMAIN forwarding_table
                 \/ forwarding_table[adv_dest] \notin DOMAIN adv_paths))
    /\ adv_pc = "sleep" =>
           \A i, j \in LocalNames(local_interfaces), d \in IPs :
               Cardinality(AdvertisementsFor(i, d)) = Cardinality(AdvertisementsFor(j, d))

(***************************************************************************)
(* C12.  forward_packet transmits a packet only if its destination is not  *)
(* the address of a local interface and the tables hold a route and a      *)
(* selected interface for it, and then out of that interface; a packet for *)
(* a local address is never forwarded; a packet for a destination without  *)
(* a table entry is dropped, the call reporting "no route" and returning.  *)
(***************************************************************************)
C12_ForwardsOnlyRoutedRemote ==
    last.op = "forward" =>
        /\ last.sent # <<>> =>
               /\ ~IsLocal(last.dest)
               /\ Known(routing_table, last.dest)
               /\ last.dest \in DOMAIN forwarding_table
               /\ Len(last.sent) = 1
               /\ last.sent[1].iface = forwarding_table[last.dest]
               /\ last.outcome = "forwarded"
        /\ IsLocal(last.dest) => (last.sent = <<>> /\ last.outcome = "local")
        /\ last.dest \notin DOMAIN routing_table =>
               (last.sent = <<>> /\ last.outcome = "no_route")

\* a packet for a learned destination has just been transmitted
C12_Witness ==
    /\ last.op = "forward" /\ last.outcome = "forwarded"
    /\ Len(last.sent) = 1 /\ ~IsLocal(last.dest)

(***************************************************************************)
(* C13.  Forwarding never mutates routing state: a step of the receive     *)
(* loop that runs forward_packet, whatever its outcome, leaves             *)
(* routing_table, forwarding_table and local_interfaces as they were, and  *)
(* after a send that raised the receive loop takes its next frame.         *)
(***************************************************************************)
C13_ForwardingNeverMutates ==
    /\ [][ last'.op = "forward" =>
              /\ TablesUnchanged
              /\ local_interfaces' = local_interfaces
              /\ last'.outcome \in {"non_ip", "local", "no_route", "no_iface",
                                    "forwarded", "send_error"} ]_vars
    /\ [](last.outcome = "send_error" => ENABLED Next)

\* the send of a packet for a learned destination has just raised
C13_Witness ==
    /\ last.op = "forward" /\ last.outcome = "send_error"
    /\ ~IsLocal(last.dest) /\ last.dest \in DOMAIN forwarding_table

(***************************************************************************)
(* C14 as claimed.  Forwarded packets are transmitted unchanged: every     *)
(* packet forward_packet hands to sendp is the packet that was received,   *)
(* its destination address field included.                                 *)
(***************************************************************************)
C14_TransmittedUnchanged ==
    last.op = "forward" =>
        \A k \in 1..Len(last.sent) :
            \E payload \in Payloads : last.sent[k].pkt = DataPacket(last.dest, payload)

(***************************************************************************)
(* C15.  Per-send failure isolation: a send of an advertisement pass that  *)
(* raises changes no table and leaves the advertiser thread in its loops;  *)
(* a pass in which sends raised has still handed an advertisement to sendp *)
(* for every local interface and every destination of routing_table when   *)
(* it reaches time.sleep, from where the next pass begins.                 *)
(***************************************************************************)
FailedSends == {k \in 1..Len(adv_log) : ~adv_log[k].sent}

C16_AdvertiserRunsForever ==
    /\ [](adv_pc # "dead")
    /\ (adv_pc = "sleep") ~> (adv_pc = "ifaces")

(***************************************************************************)
(* C17.  Stable tie-breaking: for a known destination d with selected      *)
(* interface s and effective distance m >= 1, a call                       *)
(* update_routing_table(d, m - 1, j) on any other interface j returns      *)
(* False and leaves routing_table and forwarding_table, hence the selected *)
(* interface, as they are.                                                 *)
(***************************************************************************)
C17_StableTieBreaking ==
    \A d \in DOMAIN routing_table, j \in LocalNames(local_interfaces) :
        LET m == effectiveDistance(routing_table, d)
            s == forwarding_table[d]
        IN (m >= 1 /\ j # s) =>
               LET r == UpdateCall(d, m - 1, j)
               IN /\ ~r.updated
                  /\ r.routing_table = routing_table
                  /\ r.rt_keys = rt_keys
                  /\ r.forwarding_table = forwarding_table
                  /\ Selects(r.routing_table, d, s)

\* an advertisement whose candidate distance equals the effective distance
\* has just arrived on an interface other than the selected one
C17_Witness ==
    /\ last.op = "update" /\ ~last.updated
    /\ Known(routing_table, last.dest)
    /\ last.distance + 1 = effectiveDistance(routing_table, last.dest)
    /\ last.iface # forwarding_table[last.dest]

(***************************************************************************)
(* C18.  Every destination of routing_table has at least one recorded      *)
(* (interface, distance) pair in every state the two threads reach, so the *)
(* min of line 52 and of line 77 is defined whenever it is evaluated: the  *)
(* paths the advertiser holds record a distance, min_distance is their     *)
(* minimum, and update_routing_table finds a recorded distance for every   *)
(* destination that routing_table holds.                                   *)
(***************************************************************************)
C18_RoutesNeverEmpty ==
    /\ \A d \in DOMAIN routing_table : DOMAIN routing_table[d] # {}
    /\ adv_dest # NoIP => DOMAIN adv_paths # {}
    /\ adv_pc = "send" => adv_min = Min(Values(adv_paths))

\* the advertiser holds the paths of a learned destination while the receive
\* thread is between the two writes of an update
C18_Witness ==
    /\ adv_pc = "send" /\ ~IsLocal(adv_dest)
    /\ rcv.pc = "line79"
    /\ Cardinality(DOMAIN routing_table) = 3

(***************************************************************************)
(* C19.  Monotonic tables: across the calls of update_routing_table a      *)
(* destination of routing_table is never removed, and its effective        *)
(* distance never increases from one state to the next.                    *)
(***************************************************************************)
C19_MonotonicTables ==
    [][ \A d \in DOMAIN routing_table :
            /\ Known(routing_table', d)
            /\ effectiveDistance(routing_table', d) <= effectiveDistance(routing_table, d) ]_vars

\* a destination was recorded with a distance on one interface and is now
\* routed with a lower distance through another
C19_Witness ==
    \E p \in DOMAIN recorded :
        /\ Known(routing_table, p[1])
        /\ p[2] # forwarding_table[p[1]]
        /\ effectiveDistance(routing_table, p[1]) < recorded[p]

(***************************************************************************)
(* C20.  Order independence of distances: after the advertisements of a    *)
(* batch for one destination have gone through update_routing_table, in    *)
(* whatever order, the destination is known and its effective distance is  *)
(* the minimum of its initial effective distance (if it was known) and the *)
(* least advertised distance + 1; and from every initial table, two         *)
(* advertisements for the destination applied in either order end with the *)
(* same effective distance.                                                *)
(***************************************************************************)
\* the tables after update_routing_table for advertisement a, then for b
AfterBoth(d, a, b) ==
    LET r == UpdateCall(d, a[1], a[2])
    IN update_routing_table(r.routing_table, r.rt_keys, r.forwarding_table, d, b[1], b[2])

Advertisements == AdvDistances \X LocalNames(local_interfaces)

C20_OrderIndependence ==
    /\ batch.any =>
           /\ Known(routing_table, batch.dest)
           /\ effectiveDistance(routing_table, batch.dest) =
                  IF batch.known /\ batch.initial < batch.least + 1
                  THEN batch.initial ELSE batch.least + 1
    /\ (batch.dest # NoIP /\ batch.count = 0) =>
           \A a, b \in Advertisements :
               effectiveDistance(AfterBoth(batch.dest, a, b).routing_table, batch.dest)
                 = effectiveDistance(AfterBoth(batch.dest, b, a).routing_table, batch.dest)

\* a batch of several advertisements for a destination that was unknown has
\* gone through, and two further advertisements would select different
\* interfaces depending on their order
C20_Witness ==
    /\ batch.count >= 3 /\ ~batch.known
    /\ effectiveDistance(routing_table, batch.dest) = batch.least + 1
    /\ \E a, b \in Advertisements :
           AfterBoth(batch.dest, a, b).forwarding_table[batch.dest]
             # AfterBoth(batch.dest, b, a).forwarding_table[batch.dest]

====
